---- MODULE Spec2Model ----
(***************************************************************************)
(* Model of xgboost_ray/main.py: the job-level retry loop of train(), one  *)
(* attempt of _train(), the RayXGBoostActor workers, and the checkpoint    *)
(* file naming of _checkpoint_file().                                      *)
(*                                                                         *)
(* Strings are sequences of one-character strings, so that formatting and  *)
(* path joining are computed the way the code computes them.               *)
(***************************************************************************)
EXTENDS Integers, Sequences, FiniteSets, TLC

\* ------------------------------------------------------------- bounds

\* number of actors of a job (num_actors)
NumActors == 2
\* boosting rounds asked of xgb.train in one call
NumBoostRound == 2
\* largest finite max_actor_restarts explored; with unlimited restarts,
\* worker failures are injected in at most MaxRestarts + 1 attempts
MaxRestarts == 2
\* largest small rank given to _checkpoint_file on its own
MaxRank == 11
\* addresses at which a process may place its actor object
NumAddresses == 5
\* largest checkpoint_frequency, and most iterations, given to a save
\* callback on its own
MaxFrequency == 5
MaxIterations == 20

\* -------------------------------------------------- program constants

\* train(): kwargs.get("checkpoint_frequency", 5)
DefaultCheckpointFrequency == 5
\* _checkpoint_file(): {rank:05d}
PadWidth == 5

\* ------------------------------------------------------------ strings

Digits10 == <<"0", "1", "2", "3", "4", "5", "6", "7", "8", "9">>

\* str(n) / "{}".format(n) of a non-negative int
RECURSIVE Dec(_)
Dec(n) == IF n < 10 THEN <<Digits10[n + 1]>>
          ELSE Dec(n \div 10) \o <<Digits10[(n % 10) + 1]>>

Zeros(k) == [i \in 1..k |-> "0"]

\* slip: f"{rank:5d}", padded with blanks
Pad05Blank(n) ==
    LET s == Dec(n)
    IN  IF Len(s) >= PadWidth THEN s
        ELSE [i \in 1..(PadWidth - Len(s)) |-> " "] \o s

\* f"{rank:05d}" of a non-negative int: at least PadWidth digits
Pad05(n) == LET s == Dec(n)
            IN  IF Len(s) >= PadWidth THEN s ELSE Zeros(PadWidth - Len(s)) \o s

\* Python's None where a string may stand
None == <<"None">>

\* posixpath.join(a, b) for two components
PathJoin(a, b) ==
    IF Len(b) > 0 /\ b[1] = "/" THEN b
    ELSE IF Len(a) = 0 \/ a[Len(a)] = "/" THEN a \o b
    ELSE a \o <<"/">> \o b

\* f"{prefix}_{rank:05d}.xgb"
CheckpointName(prefix, rank) ==
    prefix \o <<"_">> \o Pad05(rank) \o <<".", "x", "g", "b">>

\* _checkpoint_file(path, prefix, rank)
CheckpointFile(path, prefix, rank) ==
    IF prefix = None \/ prefix = <<>> THEN None
    ELSE PathJoin(path, CheckpointName(prefix, rank))

TmpDir == <<"/", "t", "m", "p">>
AutoPrefixHead == <<".", "x", "g", "b", "_", "r", "a", "y", "_">>

\* f".xgb_ray_{time.time()}", the clock read as a whole number
AutoPrefix(t) == AutoPrefixHead \o Dec(t)

\* ------------------------------------------------------------- inputs

Handles == {"dtrain", "deval"}

\* the evals argument: a list of (RayDMatrix, name)
EvalsChoices == { << <<"dtrain", "train">> >>, << <<"deval", "eval">> >> }

CheckpointKeys == {"checkpoint_prefix", "checkpoint_path", "checkpoint_frequency"}

UserPrefix == <<"j", "o", "b">>
UserDir == <<"/", "c", "k">>
UserFrequency == 2

\* the **kwargs of train(): which checkpoint keywords the caller passes
KwargsChoices ==
    { [k \in K |-> CASE k = "checkpoint_prefix" -> UserPrefix
                     [] k = "checkpoint_path" -> UserDir
                     [] k = "checkpoint_frequency" -> UserFrequency] :
        K \in {{}, {"checkpoint_prefix"}, {"checkpoint_path"},
               {"checkpoint_frequency"}, CheckpointKeys} }

\* float("inf")
Inf == -1

Clock == 1604

\* --------------------------------------------------------------- state

VARIABLES
    max_actor_restarts,   \* train(): argument, then normalised
    kwargs,               \* train(): **kwargs (checkpoint keywords only)
    evals,                \* train(): evals
    pc,                   \* position of the coordinator in train()/_train()
    tries,                \* train(): tries
    checkpoint_prefix,    \* train(): locals read from kwargs
    checkpoint_path,
    checkpoint_frequency,
    actors,               \* _train(): actors, rank -> RayXGBoostActor state
    tracker,              \* trackers started by _start_rabit_tracker
    files,                \* the checkpoint directory: path -> saved rounds
    retval,               \* what train() returned
    error,                \* what train() raised
    attempts,             \* _train() bodies entered
    spawned,              \* _create_actor calls made
    env,                  \* _train(): env of the tracker started, if any
    tracker_threads,      \* tracker threads started and still in join()
    cf_args,              \* arguments of a direct _checkpoint_file call
    cf_result,            \* its result
    id_of,                \* rank -> id(self) of the actor object
    task_id,              \* rank -> the DMLC_TASK_ID entry of its RabitContext
    cb_frequency,         \* a save callback on its own: checkpoint_frequency
    cb_iteration,         \* iterations its xgb.train has completed
    cb_saved              \* completed-iteration counts at which it saved

jobvars == <<max_actor_restarts, kwargs, evals, pc, tries, checkpoint_prefix,
             checkpoint_path, checkpoint_frequency, actors, tracker, files,
             retval, error, attempts, spawned, env, tracker_threads>>
cfvars == <<cf_args, cf_result>>
idvars == <<id_of, task_id>>
cbvars == <<cb_frequency, cb_iteration, cb_saved>>
auxvars == <<cfvars, idvars, cbvars>>
vars == <<jobvars, auxvars>>

NoError == [type |-> "none", args |-> <<>>]
NoValue == <<"unset">>

\* RayXGBoostActor.__init__
NewActor(rank, num_actors, prefix, path, frequency) ==
    [rank |-> rank, num_actors |-> num_actors,
     checkpoint_prefix |-> prefix, checkpoint_path |-> path,
     checkpoint_frequency |-> frequency,
     data |-> {},                          \* self._data keys
     loads |-> [h \in Handles |-> 0],      \* data.load_data(rank, n) calls
     alive |-> TRUE,
     nload |-> 0,                          \* load_data calls answered
     fail |-> "none",                      \* first failed future: task/actor
     exc |-> NoError,
     tstate |-> "none",                    \* train call: none/queued/running/done
     rabit |-> "out",                      \* RabitContext: out/in/finalized
     requests |-> {},                      \* <<handle, rank, num_actors>> asked
     xgb_model |-> None,                   \* kwargs["xgb_model"] of xgb.train
     base |-> 0,                           \* rounds of the loaded xgb_model
     it |-> 0]                             \* iterations done in this call

\* RayXGBoostActor.checkpoint_file
ActorCheckpointFile(a) ==
    CheckpointFile(a.checkpoint_path, a.checkpoint_prefix, a.rank)

Init ==
    /\ max_actor_restarts \in (-1)..MaxRestarts
    /\ kwargs \in KwargsChoices
    /\ evals \in EvalsChoices
    /\ pc = "start"
    /\ tries = 0
    /\ checkpoint_prefix = None
    /\ checkpoint_path = None
    /\ checkpoint_frequency = 0
    /\ actors = <<>>
    /\ tracker = 0
    /\ files = <<>>
    /\ retval = NoValue
    /\ error = NoError
    /\ attempts = 0
    /\ spawned = 0
    /\ env = NoValue
    /\ tracker_threads = 0
    /\ cf_args = NoValue
    /\ cf_result = NoValue
    /\ id_of = <<>>
    /\ task_id = <<>>
    /\ cb_frequency = 0
    /\ cb_iteration = 0
    /\ cb_saved = {}

\* ------------------------------------------------------ the coordinator

Leq(t, m) == m = Inf \/ t <= m

\* train(): while tries <= max_actor_restarts
LoopGuard(t, m) == Leq(t, m)

\* slip: tries+1 < max_actor_restarts
RetriesRemainStrict(t, m) == m = Inf \/ t + 1 < m

\* slip: tries <= max_actor_restarts
RetriesRemainLenient(t, m) == Leq(t, m)

\* train(): if tries+1 <= max_actor_restarts
RetriesRemain(t, m) == Leq(t + 1, m)

\* slip: the increment of tries forgotten
NextTriesStuck(t) == t

\* train(): tries += 1
NextTries(t) == t + 1

KwargsGet(key, default) ==
    IF key \in DOMAIN kwargs THEN kwargs[key] ELSE default

\* train(), up to the retry loop
TrainEnter ==
    /\ pc = "start"
    /\ max_actor_restarts' =
           IF max_actor_restarts >= 0 THEN max_actor_restarts ELSE Inf
    /\ checkpoint_prefix' = KwargsGet("checkpoint_prefix", AutoPrefix(Clock))
    /\ checkpoint_path' = KwargsGet("checkpoint_path", TmpDir)
    /\ checkpoint_frequency' =
           KwargsGet("checkpoint_frequency", DefaultCheckpointFrequency)
    /\ tries' = 0
    /\ pc' = "loop"
    /\ UNCHANGED <<kwargs, evals, actors, tracker, files, retval, error,
                   attempts, spawned, env,
                   tracker_threads, auxvars>>

\* keywords train() passes to _train() by name and again inside **kwargs
DuplicateKeywords == CheckpointKeys \cap DOMAIN kwargs

\* slip: a checkpoint prefix made anew for every attempt
CreateActorsFreshPrefix(n) ==
    [i \in 0..(n - 1) |->
        NewActor(i, n, AutoPrefix(Clock + attempts), checkpoint_path,
                 checkpoint_frequency)]

\* _train(): actors = [_create_actor(i, num_actors, ...) for i in range(num_actors)]
CreateActors(n) ==
    [i \in 0..(n - 1) |->
        NewActor(i, n, checkpoint_prefix, checkpoint_path, checkpoint_frequency)]

\* _trigger_data_load(actor, dtrain, evals): the handles of the calls, in order
LoadQueue == <<"dtrain">> \o [i \in 1..Len(evals) |-> evals[i][1]]

\* train(): the loop head, the call of _train() and _train() up to ray.get(wait_load)
LoopHead ==
    /\ pc = "loop"
    /\ IF LoopGuard(tries, max_actor_restarts)
       THEN IF DuplicateKeywords # {}
            THEN /\ pc' = "raised"
                 /\ error' = [type |-> "TypeError",
                              args |-> <<CHOOSE k \in DuplicateKeywords : TRUE>>]
                 /\ UNCHANGED <<actors, attempts, spawned, retval, env>>
            ELSE /\ actors' = CreateActors(NumActors)
                 /\ attempts' = attempts + 1
                 /\ spawned' = spawned + NumActors
                 /\ env' = NoValue
                 /\ pc' = "wait_load"
                 /\ UNCHANGED <<error, retval>>
       ELSE /\ pc' = "returned"
            /\ retval' = <<"None">>
            /\ UNCHANGED <<actors, attempts, spawned, error, env>>
    /\ UNCHANGED <<max_actor_restarts, kwargs, evals, tries, checkpoint_prefix,
                   checkpoint_path, checkpoint_frequency, tracker, files,
                   tracker_threads, auxvars>>

\* ray.get(list) blocks until every listed call has an outcome (a value, the
\* error the call raised, or RayActorError for a dead actor) and raises the
\* first error in list order; the calls are listed actor by actor, by rank.
Failed == {r \in DOMAIN actors : actors[r].fail # "none"}
FirstFailed == CHOOSE r \in Failed : \A u \in Failed : r <= u

\* "{}".format(x) of a str and of an int
FormatStr(x) == x
FormatInt(x) == Dec(x)

\* train(): the RuntimeError raised when the retries are exhausted
ExhaustedError ==
    [type |-> "RuntimeError",
     args |-> <<FormatStr(checkpoint_path), FormatInt(checkpoint_frequency)>>]

\* slip: the checkpoints removed when an attempt fails
HandleActorErrorCleaning ==
    /\ IF RetriesRemain(tries, max_actor_restarts)
       THEN /\ tries' = NextTries(tries)
            /\ pc' = "loop"
            /\ UNCHANGED error
       ELSE /\ pc' = "raised"
            /\ error' = ExhaustedError
            /\ UNCHANGED tries
    /\ files' = [p \in {} |-> 0]
    /\ UNCHANGED retval

\* train(): except RayActorError
HandleActorError ==
    /\ IF RetriesRemain(tries, max_actor_restarts)
       THEN /\ tries' = NextTries(tries)
            /\ pc' = "loop"
            /\ UNCHANGED error
       ELSE /\ pc' = "raised"
            /\ error' = ExhaustedError
            /\ UNCHANGED tries
    /\ UNCHANGED <<files, retval>>

\* slip: every error of _train() wrapped in the RuntimeError
PropagateWrapped ==
    /\ pc' = "raised"
    /\ error' = ExhaustedError
    /\ UNCHANGED <<tries, files, retval>>

\* train(): an exception of _train() that no except clause names
Propagate ==
    /\ pc' = "raised"
    /\ error' = actors[FirstFailed].exc
    /\ UNCHANGED <<tries, files, retval>>

\* slip: except Exception, every failed call retried
RayGetRaisedCatchAll == HandleActorError

\* ray.get raised: RayActorError for a dead actor, the task's error otherwise
RayGetRaised ==
    IF actors[FirstFailed].fail = "actor" THEN HandleActorError ELSE Propagate

\* slip: ray.get(wait_load) left out
LoadResolvedNoWait(r) == TRUE

LoadResolved(r) == ~actors[r].alive \/ actors[r].nload = Len(LoadQueue)

\* _start_rabit_tracker(num_workers): the env returned
StartRabitTracker(num_workers) == [DMLC_NUM_WORKER |-> num_workers]

\* _train(): ray.get(wait_load), _start_rabit_tracker, the train calls
GetLoad ==
    /\ pc = "wait_load"
    /\ \A r \in DOMAIN actors : LoadResolved(r)
    /\ IF Failed = {}
       THEN /\ tracker' = tracker + 1
            /\ tracker_threads' = tracker_threads + 1
            /\ env' = StartRabitTracker(NumActors)
            /\ actors' = [r \in DOMAIN actors |->
                             [actors[r] EXCEPT !.tstate = "queued"]]
            /\ pc' = "wait_train"
            /\ UNCHANGED <<tries, files, retval, error>>
       ELSE /\ RayGetRaised
            /\ UNCHANGED <<tracker, tracker_threads, env, actors>>
    /\ UNCHANGED <<max_actor_restarts, kwargs, evals, checkpoint_prefix,
                   checkpoint_path, checkpoint_frequency, attempts, spawned,
                   auxvars>>

\* slip: range(num_actors - 1)
CleanupRanksShort(n) == 0..(n - 2)

\* the ranks _cleanup visits: range(num_actors)
CleanupRanks(n) == 0..(n - 1)

\* _cleanup(checkpoint_prefix, checkpoint_path, num_actors)
Cleanup(f, prefix, path, n) ==
    LET gone == {CheckpointFile(path, prefix, i) : i \in CleanupRanks(n)}
    IN  [p \in (DOMAIN f) \ gone |-> f[p]]

\* slip: ray.get(fut) returning without waiting for the calls
TrainResolvedNoWait(r) == TRUE

TrainResolved(r) == ~actors[r].alive \/ actors[r].tstate = "done"

\* _train(): ray.get(fut), the result of fut[0], _cleanup, return
GetTrain ==
    /\ pc = "wait_train"
    /\ \A r \in DOMAIN actors : TrainResolved(r)
    /\ IF Failed = {}
       THEN /\ retval' = <<"bst", actors[0].base + actors[0].it>>
            /\ files' = IF checkpoint_prefix # None /\ checkpoint_prefix # <<>>
                        THEN Cleanup(files, checkpoint_prefix, checkpoint_path,
                                     NumActors)
                        ELSE files
            /\ pc' = "returned"
            /\ UNCHANGED <<tries, error>>
       ELSE RayGetRaised
    /\ UNCHANGED <<max_actor_restarts, kwargs, evals, checkpoint_prefix,
                   checkpoint_path, checkpoint_frequency, actors, tracker,
                   attempts, spawned, env,
                   tracker_threads, auxvars>>

\* ----------------------------------------------------------- the actors

SetActor(r, a) == actors' = [actors EXCEPT ![r] = a]

\* the first failure among an actor's futures is the one ray.get meets
FirstFail(a, kind, e) ==
    IF a.fail = "none" THEN [a EXCEPT !.fail = kind, !.exc = e] ELSE a

ActorDied == [type |-> "RayActorError", args |-> <<>>]

\* slip: every worker asking for the shard of rank 0
LoadDataFirstShard(a, h) ==
    [a EXCEPT !.loads[h] = @ + 1, !.data = @ \cup {h},
              !.requests = @ \cup {<<h, 0, a.num_actors>>}]

\* RayXGBoostActor.load_data(data), for handle h
LoadData(a, h) ==
    [a EXCEPT !.loads[h] = @ + 1, !.data = @ \cup {h},
              !.requests = @ \cup {<<h, a.rank, a.num_actors>>}]

\* an actor answers the next load_data call of _trigger_data_load
ActorLoadData(r) ==
    /\ pc = "wait_load"
    /\ actors[r].alive
    /\ actors[r].nload < Len(LoadQueue)
    /\ SetActor(r, [LoadData(actors[r], LoadQueue[actors[r].nload + 1])
                      EXCEPT !.nload = @ + 1])
    /\ UNCHANGED <<max_actor_restarts, kwargs, evals, pc, tries,
                   checkpoint_prefix, checkpoint_path, checkpoint_frequency,
                   tracker, files, retval, error, attempts, spawned, env,
                   tracker_threads, auxvars>>

\* data.load_data or xgb.DMatrix raises inside load_data: the call fails,
\* the actor lives on and answers its next call
ActorLoadRaises(r) ==
    /\ pc = "wait_load"
    /\ actors[r].alive
    /\ actors[r].nload < Len(LoadQueue)
    /\ SetActor(r, [FirstFail(actors[r], "task",
                              [type |-> "LoadError", args |-> <<Dec(r)>>])
                      EXCEPT !.nload = @ + 1])
    /\ UNCHANGED <<max_actor_restarts, kwargs, evals, pc, tries,
                   checkpoint_prefix, checkpoint_path, checkpoint_frequency,
                   tracker, files, retval, error, attempts, spawned, env,
                   tracker_threads, auxvars>>

\* RayXGBoostActor.train(): load what is not in self._data
EnsureLoaded(a) ==
    LET need == {h \in {LoadQueue[i] : i \in 1..Len(LoadQueue)} : h \notin a.data}
    IN  [a EXCEPT !.loads = [h \in Handles |->
                                IF h \in need THEN a.loads[h] + 1 ELSE a.loads[h]],
                  !.data = @ \cup need,
                  !.requests = @ \cup {<<h, a.rank, a.num_actors>> : h \in need}]

\* RayXGBoostActor.train() up to RabitContext.__enter__
ActorTrainStart(r) ==
    /\ pc = "wait_train"
    /\ actors[r].alive
    /\ actors[r].tstate = "queued"
    /\ LET a == EnsureLoaded(actors[r])
           cf == ActorCheckpointFile(a)
       IN  IF cf = None
           THEN \* os.path.exists(None) raises TypeError
                SetActor(r, [FirstFail(a, "task",
                                 [type |-> "TypeError", args |-> <<Dec(r)>>])
                               EXCEPT !.tstate = "done"])
           ELSE SetActor(r, [a EXCEPT
                    !.xgb_model = IF cf \in DOMAIN files THEN cf ELSE None,
                    !.base = IF cf \in DOMAIN files THEN files[cf] ELSE 0,
                    !.rabit = "in",
                    !.tstate = "running"])
    /\ UNCHANGED <<max_actor_restarts, kwargs, evals, pc, tries,
                   checkpoint_prefix, checkpoint_path, checkpoint_frequency,
                   tracker, files, retval, error, attempts, spawned, env,
                   tracker_threads, auxvars>>

\* slip: the test made on the iterations completed, env.iteration + 1
SavesAtCompleted(i, frequency) == (i + 1) % frequency = 0

\* _save_checkpoint_callback: callback(env), env.iteration = i
SavesAt(i, frequency) == i % frequency = 0

SaveModel(f, path, rounds) ==
    [p \in (DOMAIN f) \cup {path} |-> IF p = path THEN rounds ELSE f[p]]

\* rabit: an iteration's allreduce completes once every peer has reached it
PeersReached(r) ==
    \A u \in DOMAIN actors :
        actors[u].rabit # "out" /\ actors[u].it >= actors[r].it

\* xgb.train: one boosting iteration and its callbacks
ActorTrainIteration(r) ==
    /\ pc = "wait_train"
    /\ actors[r].alive
    /\ actors[r].tstate = "running"
    /\ actors[r].it < NumBoostRound
    /\ PeersReached(r)
    /\ LET a == actors[r]
       IN  /\ SetActor(r, [a EXCEPT !.it = @ + 1])
           /\ files' = IF SavesAt(a.it, a.checkpoint_frequency)
                       THEN SaveModel(files, ActorCheckpointFile(a),
                                      a.base + a.it + 1)
                       ELSE files
    /\ UNCHANGED <<max_actor_restarts, kwargs, evals, pc, tries,
                   checkpoint_prefix, checkpoint_path, checkpoint_frequency,
                   tracker, retval, error, attempts, spawned, env,
                   tracker_threads, auxvars>>

\* the thread of _start_rabit_tracker runs rabit_tracker.join, which returns
\* once every one of the num_workers workers has sent its rabit.finalize;
\* nothing else in the program stops the tracker or its thread
TrackerThreadsAfter(r) ==
    IF \A u \in DOMAIN actors \ {r} : actors[u].rabit = "finalized"
    THEN tracker_threads - 1
    ELSE tracker_threads

\* xgb.train returns: RabitContext.__exit__, the result
ActorTrainReturns(r) ==
    /\ pc = "wait_train"
    /\ actors[r].alive
    /\ actors[r].tstate = "running"
    /\ actors[r].it = NumBoostRound
    /\ SetActor(r, [actors[r] EXCEPT !.rabit = "finalized", !.tstate = "done"])
    /\ tracker_threads' = TrackerThreadsAfter(r)
    /\ UNCHANGED <<max_actor_restarts, kwargs, evals, pc, tries,
                   checkpoint_prefix, checkpoint_path, checkpoint_frequency,
                   tracker, files, retval, error, attempts, spawned, env,
                   auxvars>>

\* slip: rabit.finalize called after xgb.train instead of in __exit__
ActorTrainRaisesNoExit(r) ==
    /\ pc = "wait_train"
    /\ actors[r].alive
    /\ actors[r].tstate = "running"
    /\ SetActor(r, [FirstFail(actors[r], "task",
                              [type |-> "XGBoostError", args |-> <<Dec(r)>>])
                      EXCEPT !.tstate = "done"])
    /\ UNCHANGED <<max_actor_restarts, kwargs, evals, pc, tries,
                   checkpoint_prefix, checkpoint_path, checkpoint_frequency,
                   tracker, files, retval, error, attempts, spawned, env,
                   tracker_threads, auxvars>>

\* xgb.train raises: RabitContext.__exit__, the call fails with the error
ActorTrainRaises(r) ==
    /\ pc = "wait_train"
    /\ actors[r].alive
    /\ actors[r].tstate = "running"
    /\ SetActor(r, [FirstFail(actors[r], "task",
                              [type |-> "XGBoostError", args |-> <<Dec(r)>>])
                      EXCEPT !.rabit = "finalized", !.tstate = "done"])
    /\ tracker_threads' = TrackerThreadsAfter(r)
    /\ UNCHANGED <<max_actor_restarts, kwargs, evals, pc, tries,
                   checkpoint_prefix, checkpoint_path, checkpoint_frequency,
                   tracker, files, retval, error, attempts, spawned, env,
                   auxvars>>

\* the actor's process dies while a call of it is outstanding (with unlimited
\* restarts, deaths are explored in the first MaxRestarts attempts only)
ActorDies(r) ==
    /\ \/ pc = "wait_load" /\ actors[r].nload < Len(LoadQueue)
       \/ pc = "wait_train" /\ actors[r].tstate # "done"
    /\ actors[r].alive
    /\ max_actor_restarts = Inf => tries < MaxRestarts
    /\ SetActor(r, [FirstFail(actors[r], "actor", ActorDied)
                      EXCEPT !.alive = FALSE])
    /\ UNCHANGED <<max_actor_restarts, kwargs, evals, pc, tries,
                   checkpoint_prefix, checkpoint_path, checkpoint_frequency,
                   tracker, files, retval, error, attempts, spawned, env,
                   tracker_threads, auxvars>>

Next ==
    \/ TrainEnter
    \/ LoopHead
    \/ GetLoad
    \/ GetTrain
    \/ \E r \in DOMAIN actors : ActorLoadData(r)
    \/ \E r \in DOMAIN actors : ActorLoadRaises(r)
    \/ \E r \in DOMAIN actors : ActorTrainStart(r)
    \/ \E r \in DOMAIN actors : ActorTrainIteration(r)
    \/ \E r \in DOMAIN actors : ActorTrainReturns(r)
    \/ \E r \in DOMAIN actors : ActorTrainRaises(r)
    \/ \E r \in DOMAIN actors : ActorDies(r)

Spec == Init /\ [][Next]_vars

\* ------------------------------------- _checkpoint_file called on its own

DirChoices ==
    { TmpDir, UserDir, <<"/", "t", "m", "p", "/">>, <<>>, <<"c", "k">> }

PrefixChoices ==
    { None, <<>>, UserPrefix, AutoPrefix(Clock), <<"/", "a">> }

RankChoices == (0..MaxRank) \cup {99999, 100000}

InitPath ==
    /\ max_actor_restarts = 0
    /\ kwargs = <<>>
    /\ evals = <<>>
    /\ pc = "start"
    /\ tries = 0
    /\ checkpoint_prefix = None
    /\ checkpoint_path = None
    /\ checkpoint_frequency = 0
    /\ actors = <<>>
    /\ tracker = 0
    /\ files = <<>>
    /\ retval = NoValue
    /\ error = NoError
    /\ attempts = 0
    /\ spawned = 0
    /\ env = NoValue
    /\ tracker_threads = 0
    /\ cf_args \in [path : DirChoices, prefix : PrefixChoices, rank : RankChoices]
    /\ cf_result = NoValue
    /\ id_of = <<>>
    /\ task_id = <<>>
    /\ cb_frequency = 0
    /\ cb_iteration = 0
    /\ cb_saved = {}

\* _checkpoint_file(path, prefix, rank)
CallCheckpointFile ==
    /\ cf_result = NoValue
    /\ cf_result' = CheckpointFile(cf_args.path, cf_args.prefix, cf_args.rank)
    /\ UNCHANGED <<cf_args, jobvars, idvars, cbvars>>

NextPath == CallCheckpointFile

SpecPath == InitPath /\ [][NextPath]_vars

\* ------------------------------- the task ids of one attempt, on their own

\* id(self) is the address of the actor object inside its own process: the
\* processes of two actors may place the object at the same address
Addresses == 1..NumAddresses

\* str(id(self))
ActorId(address) == Dec(address)

\* RabitContext.__init__: 'DMLC_TASK_ID=[xgboost.ray]:' + actor_id
TaskIdEntry(actor_id) ==
    <<"D", "M", "L", "C", "_", "T", "A", "S", "K", "_", "I", "D", "=",
      "[", "x", "g", "b", "o", "o", "s", "t", ".", "r", "a", "y", "]", ":">>
        \o actor_id

InitIds ==
    /\ max_actor_restarts = 0
    /\ kwargs = <<>>
    /\ evals = <<>>
    /\ pc = "start"
    /\ tries = 0
    /\ checkpoint_prefix = None
    /\ checkpoint_path = None
    /\ checkpoint_frequency = 0
    /\ actors = <<>>
    /\ tracker = 0
    /\ files = <<>>
    /\ retval = NoValue
    /\ error = NoError
    /\ attempts = 0
    /\ spawned = 0
    /\ env = NoValue
    /\ tracker_threads = 0
    /\ cf_args = NoValue
    /\ cf_result = NoValue
    /\ id_of = <<>>
    /\ task_id = <<>>
    /\ cb_frequency = 0
    /\ cb_iteration = 0
    /\ cb_saved = {}

\* _create_actor(rank, ...): the actor object is built in a process of its own
IdCreateActor ==
    /\ Cardinality(DOMAIN id_of) < NumActors
    /\ \E address \in Addresses :
           id_of' = [r \in 0..Cardinality(DOMAIN id_of) |->
                        IF r \in DOMAIN id_of THEN id_of[r] ELSE address]
    /\ UNCHANGED <<task_id, jobvars, cfvars, cbvars>>

\* RayXGBoostActor.train(): RabitContext(str(id(self)), rabit_args)
IdRabitContext(r) ==
    /\ Cardinality(DOMAIN id_of) = NumActors
    /\ r \in DOMAIN id_of
    /\ r \notin DOMAIN task_id
    /\ task_id' = [u \in DOMAIN task_id \cup {r} |->
                      IF u = r THEN TaskIdEntry(ActorId(id_of[r]))
                      ELSE task_id[u]]
    /\ UNCHANGED <<id_of, jobvars, cfvars, cbvars>>

NextIds ==
    \/ IdCreateActor
    \/ \E r \in 0..(NumActors - 1) : IdRabitContext(r)

SpecIds == InitIds /\ [][NextIds]_vars

\* ----------------------------- the save callback of one actor, on its own

InitSave ==
    /\ max_actor_restarts = 0
    /\ kwargs = <<>>
    /\ evals = <<>>
    /\ pc = "start"
    /\ tries = 0
    /\ checkpoint_prefix = None
    /\ checkpoint_path = None
    /\ checkpoint_frequency = 0
    /\ actors = <<>>
    /\ tracker = 0
    /\ files = <<>>
    /\ retval = NoValue
    /\ error = NoError
    /\ attempts = 0
    /\ spawned = 0
    /\ env = NoValue
    /\ tracker_threads = 0
    /\ cf_args = NoValue
    /\ cf_result = NoValue
    /\ id_of = <<>>
    /\ task_id = <<>>
    /\ cb_frequency \in 1..MaxFrequency
    /\ cb_iteration = 0
    /\ cb_saved = {}

\* xgb.train: iteration number cb_iteration (from 0) is done, then the
\* callbacks are called with env.iteration = cb_iteration
SaveCallbackStep ==
    /\ cb_iteration < MaxIterations
    /\ cb_iteration' = cb_iteration + 1
    /\ cb_saved' = IF SavesAt(cb_iteration, cb_frequency)
                   THEN cb_saved \cup {cb_iteration + 1}
                   ELSE cb_saved
    /\ UNCHANGED <<cb_frequency, jobvars, cfvars, idvars>>

NextSave == SaveCallbackStep

SpecSave == InitSave /\ [][NextSave]_vars

\* ============================================================== claims

\* the last attempt's train calls all returned a result
AttemptCompleted ==
    /\ attempts >= 1
    /\ \A r \in DOMAIN actors :
           actors[r].tstate = "done" /\ actors[r].fail = "none"

Exhausted == pc = "raised" /\ error.type = "RuntimeError"

\* C1: with max_actor_restarts = R >= 0, train() fails for exhausted retries
\* only when more than R attempts ended in an actor's death, and never when
\* restarts are unlimited; an attempt whose train calls all completed makes
\* train() return, never retry or raise, and what train() returns is the
\* result of such an attempt (the model of rank 0).
C1_RestartsHonoured ==
    /\ Exhausted => (max_actor_restarts # Inf /\ tries + 1 > max_actor_restarts)
    /\ AttemptCompleted => pc \in {"wait_train", "returned"}
    /\ pc = "returned" =>
           /\ AttemptCompleted
           /\ retval = <<"bst", actors[0].base + actors[0].it>>

\* R = MaxRestarts or less failed attempts, then one that completes
C1_Witness ==
    /\ pc = "returned"
    /\ max_actor_restarts >= 1
    /\ tries = max_actor_restarts
    /\ AttemptCompleted

\* C2 (as claimed): the error raised when the retries are exhausted reports
\* the checkpoint directory and the checkpoint prefix of the job's files.
C2_ReportsDirAndPrefix ==
    Exhausted =>
        /\ \E i \in DOMAIN error.args : error.args[i] = checkpoint_path
        /\ \E i \in DOMAIN error.args : error.args[i] = checkpoint_prefix

\* C3: no step removes a checkpoint file, except the step in which train()
\* returns after an attempt whose train calls all completed: a failed attempt
\* that is retried, exhausted retries and a propagated error keep every file.
C3_NoDeletionOnFailure ==
    [][ \/ DOMAIN files \subseteq DOMAIN files'
        \/ /\ pc = "wait_train"
           /\ AttemptCompleted
           /\ pc' = "returned" ]_vars

\* retries exhausted with checkpoint files on disk
C3_Witness == Exhausted /\ DOMAIN files # {}

\* C4: once train() has returned, no rank 0..N-1 has a checkpoint file under
\* the job's prefix, however many attempts failed before.
C4_CleanAfterSuccess ==
    (pc = "returned" /\ checkpoint_prefix # None /\ checkpoint_prefix # <<>>) =>
        \A r \in 0..(NumActors - 1) :
            CheckpointFile(checkpoint_path, checkpoint_prefix, r)
                \notin DOMAIN files

\* a return after a failed attempt, every rank having saved in the last one
C4_Witness ==
    /\ pc = "returned"
    /\ tries >= 1
    /\ \A r \in DOMAIN actors :
           actors[r].it >= 1 /\ SavesAt(0, actors[r].checkpoint_frequency)

\* ray.get meets a failed call that is not an actor's death
TaskErrorSeen ==
    /\ pc \in {"wait_load", "wait_train"}
    /\ pc' # pc
    /\ Failed # {}
    /\ actors[FirstFailed].fail = "task"

\* ray.get meets the failed call of a dead actor
ActorErrorSeen ==
    /\ pc \in {"wait_load", "wait_train"}
    /\ pc' # pc
    /\ Failed # {}
    /\ actors[FirstFailed].fail = "actor"

\* C5: an error of the load or train phase that is not an actor's death ends
\* train() at once with that very error: tries is not changed, no attempt is
\* started and no actor spawned, whatever max_actor_restarts is; after train()
\* has raised nothing more is started.
C5_OtherErrorsPropagate ==
    [][ /\ TaskErrorSeen =>
              /\ pc' = "raised"
              /\ error' = actors[FirstFailed].exc
              /\ tries' = tries
              /\ attempts' = attempts
              /\ spawned' = spawned
        /\ pc = "raised" => (attempts' = attempts /\ spawned' = spawned) ]_vars

\* an engine or load error propagated although restarts are unlimited
C5_Witness ==
    /\ pc = "raised"
    /\ error.type \in {"XGBoostError", "LoadError"}
    /\ max_actor_restarts = Inf

\* C6 (as claimed): a call that fails because the actor raised an error is
\* handled like a dead actor: it takes one unit of the retry budget and the
\* job restarts while restarts remain.
C6_RaisedErrorRetried ==
    [][ TaskErrorSeen =>
            IF max_actor_restarts = Inf \/ tries + 1 <= max_actor_restarts
            THEN tries' = tries + 1 /\ pc' = "loop"
            ELSE pc' = "raised" /\ error'.type = "RuntimeError" ]_vars

\* C6 (amended): only an actor's death is a worker failure: it takes one unit
\* of the retry budget and restarts the job while restarts remain, and is the
\* RuntimeError otherwise; a call that fails because the actor raised an error
\* takes no unit and ends train() with an error that is not the RuntimeError.
C6_OnlyDeathRetried ==
    [][ /\ ActorErrorSeen =>
              IF max_actor_restarts = Inf \/ tries + 1 <= max_actor_restarts
              THEN tries' = tries + 1 /\ pc' = "loop"
              ELSE pc' = "raised" /\ error'.type = "RuntimeError"
        /\ TaskErrorSeen =>
              /\ tries' = tries
              /\ pc' = "raised"
              /\ error'.type # "RuntimeError" ]_vars

\* a raised error ended the job in its first attempt though restarts remained
C6_Witness ==
    /\ pc = "raised"
    /\ error.type \in {"XGBoostError", "LoadError"}
    /\ max_actor_restarts >= 1
    /\ tries = 0

\* C7 (as claimed): on every actor the handle's load_data(rank, num_actors)
\* is invoked at most once per handle, and once for a handle held in _data.
C7_LoadOncePerHandle ==
    \A r \in DOMAIN actors : \A h \in Handles :
        /\ actors[r].loads[h] <= 1
        /\ h \in actors[r].data => actors[r].loads[h] = 1

\* C8: every attempt spawns exactly num_actors actors; with R >= 0 there are
\* at most R + 1 attempts, so at most (R + 1) * num_actors spawns; attempt
\* k + 1 is started only after k attempts ended with an actor's death.
C8_SpawnBound ==
    /\ spawned = attempts * NumActors
    /\ pc \in {"wait_load", "wait_train"} =>
           DOMAIN actors = 0..(NumActors - 1)
    /\ max_actor_restarts >= 0 =>
           /\ attempts <= max_actor_restarts + 1
           /\ spawned <= (max_actor_restarts + 1) * NumActors
    /\ attempts <= tries + 1

\* the last permitted attempt is under way
C8_Witness ==
    /\ max_actor_restarts >= 1
    /\ attempts = max_actor_restarts + 1
    /\ spawned = (max_actor_restarts + 1) * NumActors
    /\ pc = "wait_train"

\* C9 (as claimed): a call of train() that passes checkpoint_prefix,
\* checkpoint_path or checkpoint_frequency runs the job, and every actor is
\* created with the values passed.
C9_SuppliedCheckpointConfigUsed ==
    /\ (pc \in {"returned", "raised"} /\ DOMAIN kwargs # {}) => attempts >= 1
    /\ \A r \in DOMAIN actors : \A k \in DOMAIN kwargs :
           /\ k = "checkpoint_prefix" => actors[r].checkpoint_prefix = kwargs[k]
           /\ k = "checkpoint_path" => actors[r].checkpoint_path = kwargs[k]
           /\ k = "checkpoint_frequency" =>
                  actors[r].checkpoint_frequency = kwargs[k]

\* the decimal digits of n, zero-padded on the left to at least w digits
RECURSIVE ZeroPadded(_, _)
ZeroPadded(n, w) ==
    IF n < 10 /\ w <= 1 THEN <<Digits10[n + 1]>>
    ELSE ZeroPadded(n \div 10, w - 1) \o <<Digits10[(n % 10) + 1]>>

\* {prefix}_{rank zero-padded to 5 digits}.xgb
TemplateName(prefix, rank) ==
    prefix \o <<"_">> \o ZeroPadded(rank, 5) \o <<".", "x", "g", "b">>

HasPrefix(prefix) == prefix # None /\ prefix # <<>>

\* C10 (as claimed): with a non-empty prefix the path is
\* {checkpointDir}/{checkpointPrefix}_{rank:05d}.xgb and distinct ranks get
\* distinct paths; with no prefix the result is none.
C10_PathTemplate ==
    cf_result # NoValue =>
        IF HasPrefix(cf_args.prefix)
        THEN /\ cf_result = cf_args.path \o <<"/">>
                               \o TemplateName(cf_args.prefix, cf_args.rank)
             /\ \A r \in RankChoices \ {cf_args.rank} :
                    CheckpointFile(cf_args.path, cf_args.prefix, r) # cf_result
        ELSE cf_result = None

\* C10 (amended): with a non-empty prefix the path is the path join of
\* checkpointDir and {checkpointPrefix}_{rank:05d}.xgb: the file name alone
\* when the prefix begins with "/", checkpointDir followed by the file name
\* when checkpointDir is empty or ends with "/", and otherwise
\* {checkpointDir}/{checkpointPrefix}_{rank:05d}.xgb; distinct ranks get
\* distinct paths; with no prefix the result is none.
C10_PathJoined ==
    cf_result # NoValue =>
        LET dir == cf_args.path
            name == TemplateName(cf_args.prefix, cf_args.rank)
        IN  IF HasPrefix(cf_args.prefix)
            THEN /\ cf_result =
                        IF name[1] = "/" THEN name
                        ELSE IF dir = <<>> \/ dir[Len(dir)] = "/"
                             THEN dir \o name
                             ELSE dir \o <<"/">> \o name
                 /\ \A r \in RankChoices \ {cf_args.rank} :
                        CheckpointFile(dir, cf_args.prefix, r) # cf_result
            ELSE cf_result = None

\* the default directory, a prefix and a rank that needs padding
C10_Witness ==
    /\ cf_args.path = TmpDir
    /\ cf_args.prefix = UserPrefix
    /\ cf_args.rank = 7
    /\ cf_result = <<"/", "t", "m", "p", "/", "j", "o", "b", "_",
                     "0", "0", "0", "0", "7", ".", "x", "g", "b">>

\* a live actor's train call is queued or running
TrainOutstanding(a) == a.alive /\ a.tstate \in {"queued", "running"}

\* the step rewrites or creates exactly the checkpoint file of a live actor of
\* the attempt under way, which completes an iteration in it
WrittenByOwnRank ==
    /\ pc = "wait_train"
    /\ DOMAIN files \subseteq DOMAIN files'
    /\ \E r \in DOMAIN actors :
           /\ TrainOutstanding(actors[r])
           /\ actors'[r].it = actors[r].it + 1
           /\ \A p \in DOMAIN files' :
                  p # ActorCheckpointFile(actors[r]) =>
                      (p \in DOMAIN files /\ files'[p] = files[p])

\* the step is the return of train() with its _cleanup
RemovedByCleanup == pc = "wait_train" /\ pc' = "returned"

C12_TaskIdsDistinct ==
    \A r, u \in DOMAIN task_id : r # u => task_id[r] # task_id[u]

\* the step in which the actor of rank r enters xgb.train
EngineStarts(r) ==
    /\ r \in DOMAIN actors
    /\ r \in DOMAIN actors'
    /\ actors[r].tstate = "queued"
    /\ actors'[r].tstate = "running"

\* C13: the checkpoint directory and prefix read by train() stay the same for
\* all its attempts; the worker of rank r starts the engine with the job's
\* file of rank r as xgb_model (and the rounds saved in it as its base) when
\* that file exists, which in a retry means an earlier attempt wrote it, and
\* with no xgb_model when it does not exist.
C13_ResumeFromOwnFile ==
    [][ /\ pc # "start" =>
              /\ checkpoint_prefix' = checkpoint_prefix
              /\ checkpoint_path' = checkpoint_path
        /\ \A r \in 0..(NumActors - 1) :
              EngineStarts(r) =>
                  LET cf == CheckpointFile(checkpoint_path, checkpoint_prefix, r)
                  IN  IF cf \in DOMAIN files
                      THEN /\ actors'[r].xgb_model = cf
                           /\ actors'[r].base = files[cf]
                      ELSE /\ actors'[r].xgb_model = None
                           /\ actors'[r].base = 0 ]_vars

\* in a retry, one rank has resumed from the file of an earlier attempt and
\* another, whose file does not exist, has started afresh
C13_Witness ==
    /\ tries >= 1
    /\ \E r, u \in DOMAIN actors :
           /\ actors[r].tstate = "running"
           /\ actors[r].xgb_model = CheckpointFile(checkpoint_path,
                                                   checkpoint_prefix, r)
           /\ actors[r].base >= 1
           /\ actors[u].tstate = "running"
           /\ actors[u].xgb_model = None
           /\ actors[u].it = 0

\* C14: in a train call the worker joins (rabit.init) when it enters the
\* engine and before any iteration of it: an iteration is done only by a
\* joined worker; a train call that ends, with a model or with an error of
\* the engine, leaves the worker finalized; a worker that is joined and not
\* finalized is still inside its train call.
C14_JoinedAroundEngine ==
    [][ (pc = "wait_train" /\ pc' = "wait_train") =>
            \A r \in DOMAIN actors :
                /\ EngineStarts(r) =>
                       (actors'[r].rabit = "in" /\ actors'[r].it = 0)
                /\ actors'[r].it # actors[r].it => actors[r].rabit = "in"
                /\ (actors[r].tstate = "running" /\ actors'[r].tstate = "done")
                       => actors'[r].rabit = "finalized"
                /\ actors'[r].rabit = "in" => actors'[r].tstate = "running"
                /\ actors'[r].rabit = "finalized" => actors'[r].tstate = "done"
      ]_vars

\* one worker left the engine with an error after an iteration, another with
\* a model; both are finalized
C14_Witness ==
    \E r, u \in DOMAIN actors :
        /\ actors[r].fail = "task"
        /\ actors[r].exc.type = "XGBoostError"
        /\ actors[r].it >= 1
        /\ actors[r].rabit = "finalized"
        /\ actors[u].fail = "none"
        /\ actors[u].tstate = "done"
        /\ actors[u].rabit = "finalized"

\* every load call dispatched to the actor has completed
LoadsCompleted(a) ==
    /\ a.nload = Len(LoadQueue)
    /\ \A i \in 1..Len(LoadQueue) : LoadQueue[i] \in a.data

\* C15: in every attempt the tracker is started, for num_actors workers, only
\* when the load calls of every worker for dtrain and for every evals handle
\* have completed; a train call is dispatched only with the env of the tracker
\* started in that attempt; the result is read and the checkpoint files are
\* removed only when the train calls of all num_actors workers have completed.
C15_PhasesOrdered ==
    [][ /\ pc' = "wait_load" =>
              /\ env' = NoValue
              /\ \A r \in DOMAIN actors' : actors'[r].tstate = "none"
        /\ tracker' # tracker =>
              /\ env' = StartRabitTracker(NumActors)
              /\ DOMAIN actors = 0..(NumActors - 1)
              /\ \A r \in DOMAIN actors : LoadsCompleted(actors[r])
        /\ \A r \in DOMAIN actors' :
              actors'[r].tstate # "none" =>
                  /\ env' = StartRabitTracker(NumActors)
                  /\ \A u \in DOMAIN actors' : LoadsCompleted(actors'[u])
        /\ (retval' # retval \/ ~(DOMAIN files \subseteq DOMAIN files')) =>
              /\ DOMAIN actors = 0..(NumActors - 1)
              /\ \A r \in DOMAIN actors :
                     actors[r].tstate = "done" /\ actors[r].fail = "none"
      ]_vars

\* train() has returned: the evals handle was loaded by every worker, the
\* tracker started, every train call done
C15_Witness ==
    /\ pc = "returned"
    /\ tracker >= 1
    /\ env = StartRabitTracker(NumActors)
    /\ \A r \in DOMAIN actors :
           /\ LoadsCompleted(actors[r])
           /\ "deval" \in actors[r].data
           /\ actors[r].tstate = "done"

\* C16 (as claimed): the save hook has saved exactly at the iterations where
\* the number of completed iterations was a positive multiple of
\* checkpoint_frequency.
C16_SavesAtCompletedMultiples ==
    cb_saved = {k \in 1..cb_iteration : k % cb_frequency = 0}

\* C16 (amended): the save hook has saved exactly at the iterations whose
\* index, counted from 0 in this train call, is a multiple of
\* checkpoint_frequency: after 1, frequency + 1, 2 * frequency + 1, ...
\* completed iterations, the first iteration always included.
C16_SavesAtIndexMultiples ==
    cb_saved = {k \in 1..cb_iteration : (k - 1) % cb_frequency = 0}

\* with the default frequency the callback has saved after 1, 6 and 11
\* iterations and not after 5 or 10
C16_Witness ==
    /\ cb_frequency = DefaultCheckpointFrequency
    /\ cb_iteration >= 11
    /\ {k \in cb_saved : k <= 11} = {1, 6, 11}

\* the (rank, total) pairs with which handle h was asked for its shard
RequestedPairs(h) ==
    {<<q[2], q[3]>> : q \in {x \in UNION {actors[r].requests : r \in DOMAIN actors}
                                 : x[1] = h}}

\* C17: the workers of an attempt are num_actors many, the one at position r
\* holds rank r, each was created with total num_actors, and every load_data
\* of a handle's shard is asked with (its own rank, num_actors); once the
\* loads of the attempt have completed, the pairs asked of each handle of the
\* attempt are exactly {(r, num_actors) : 0 <= r < num_actors}.
C17_RanksPartition ==
    attempts >= 1 =>
        /\ DOMAIN actors = 0..(NumActors - 1)
        /\ \A r \in DOMAIN actors :
               /\ actors[r].rank = r
               /\ actors[r].num_actors = NumActors
               /\ \A q \in actors[r].requests :
                      q[2] = r /\ q[3] = NumActors /\ q[1] \in actors[r].data
               /\ \A h \in actors[r].data : <<h, r, NumActors>> \in actors[r].requests
        /\ (\A r \in DOMAIN actors : LoadsCompleted(actors[r])) =>
               \A i \in 1..Len(LoadQueue) :
                   RequestedPairs(LoadQueue[i])
                       = {<<r, NumActors>> : r \in 0..(NumActors - 1)}

\* the train phase is reached with the training and the evaluation handle
\* asked for every rank's shard
C17_Witness ==
    /\ pc = "wait_train"
    /\ \A r \in 0..(NumActors - 1) :
           /\ <<r, NumActors>> \in RequestedPairs("dtrain")
           /\ <<r, NumActors>> \in RequestedPairs("deval")

\* the ranks whose checkpoint file of the job exists
RanksWithFile ==
    {r \in 0..(NumActors - 1) :
        CheckpointFile(checkpoint_path, checkpoint_prefix, r) \in DOMAIN files}

\* C18 (as claimed): when a retry attempt starts, either no rank has a
\* checkpoint file or all num_actors ranks have one, and the files that exist
\* hold the model of the same iteration.
C18_CheckpointsConsistent ==
    (pc = "wait_load" /\ tries >= 1) =>
        /\ RanksWithFile \in {{}, 0..(NumActors - 1)}
        /\ \A r, u \in RanksWithFile :
               files[CheckpointFile(checkpoint_path, checkpoint_prefix, r)]
                   = files[CheckpointFile(checkpoint_path, checkpoint_prefix, u)]

\* C19: train() never returns the (None, {}) that follows its retry loop: the
\* loop is entered again only with tries <= max_actor_restarts, so it ends by
\* the return of _train()'s result, which is the result of an attempt whose
\* train calls all completed, or by an error, and never by its condition.
C19_NoFallback ==
    /\ retval # <<"None">>
    /\ pc = "loop" => LoopGuard(tries, max_actor_restarts)
    /\ pc = "returned" => (AttemptCompleted /\ retval[1] = "bst")
    /\ pc = "raised" => (error # NoError /\ retval = NoValue)

\* the last permitted attempt failed: the loop ends by the RuntimeError with
\* tries = max_actor_restarts, not by its condition
C19_Witness ==
    /\ Exhausted
    /\ max_actor_restarts >= 1
    /\ tries = max_actor_restarts
    /\ attempts = max_actor_restarts + 1
    /\ retval = NoValue

\* C20 (as claimed): the model train() returns holds exactly the
\* num_boost_round iterations asked for, however many restarts there were.
C20_RequestedRounds ==
    (pc = "returned" /\ retval[1] = "bst") => retval[2] = NumBoostRound

====
